---- MODULE Spec2Model ----
(***************************************************************************)
(* Recurring task schedule engine of oliver: the recurrence calculator     *)
(* (backend/app/services/template_service.py), the schedule applicator     *)
(* that runs when a calendar day is opened                                 *)
(* (backend/app/services/day_service.py, backend/app/api/days.py) and the  *)
(* operations around it (templates, schedules, day-off records, manual     *)
(* instantiation).                                                         *)
(*                                                                         *)
(* A date is the number of days since 1 January of EpochYear, the way      *)
(* datetime.date is a day count with a proleptic Gregorian calendar on     *)
(* top of it.                                                              *)
(***************************************************************************)
EXTENDS Integers, Sequences, FiniteSets, TLC

VARIABLES templates, schedules, days, day_offs, tasks, ids, last, calc,
          sessions, seen, settings

vars == <<templates, schedules, days, day_offs, tasks, ids, last, calc, sessions,
          seen, settings>>

None == "None"

\* ------------------------------------------------------------------------
\* Calendar (datetime.date, calendar.monthrange)
\* ------------------------------------------------------------------------

EpochYear == 2026

isleap(year) ==
    (year % 4 = 0) /\ ((year % 100 # 0) \/ (year % 400 = 0))

\* calendar.monthrange(year, month)[1]: the number of days of the month
monthrange(year, month) ==
    IF month = 2 THEN (IF isleap(year) THEN 29 ELSE 28)
    ELSE IF month \in {4, 6, 9, 11} THEN 30 ELSE 31

days_in_year(year) ==
    IF isleap(year) THEN 366 ELSE 365

RECURSIVE days_before_year(_)
days_before_year(year) ==
    IF year <= EpochYear THEN 0
    ELSE days_before_year(year - 1) + days_in_year(year - 1)

RECURSIVE days_before_month(_, _)
days_before_month(year, month) ==
    IF month <= 1 THEN 0
    ELSE days_before_month(year, month - 1) + monthrange(year, month - 1)

\* date(year, month, day)
date_type(year, month, day) ==
    days_before_year(year) + days_before_month(year, month) + (day - 1)

RECURSIVE year_from(_, _)
year_from(year, n) ==
    IF n < days_in_year(year) THEN <<year, n>>
    ELSE year_from(year + 1, n - days_in_year(year))

RECURSIVE month_from(_, _, _)
month_from(year, month, n) ==
    IF n < monthrange(year, month) THEN <<month, n>>
    ELSE month_from(year, month + 1, n - monthrange(year, month))

\* the year, month and day attributes of a date
date_year(d) == year_from(EpochYear, d)[1]

date_month(d) ==
    LET yr == year_from(EpochYear, d) IN month_from(yr[1], 1, yr[2])[1]

date_day(d) ==
    LET yr == year_from(EpochYear, d) IN month_from(yr[1], 1, yr[2])[2] + 1

\* ------------------------------------------------------------------------
\* RecurrenceCalculator
\* ------------------------------------------------------------------------

RecurrenceType == {"weekly", "bi_weekly", "monthly"}

\* compute_next_run with the weekly and bi-weekly step taken on the day of
\* the month, held inside the month of current
compute_next_run_in_month(current, recurrence) ==
    IF recurrence \in {"weekly", "bi_weekly"}
    THEN LET step    == IF recurrence = "weekly" THEN 7 ELSE 14
             max_day == monthrange(date_year(current), date_month(current))
             day     == IF date_day(current) + step < max_day
                        THEN date_day(current) + step ELSE max_day
         IN  date_type(date_year(current), date_month(current), day)
    ELSE LET month   == (date_month(current) % 12) + 1
             year    == date_year(current) + (date_month(current) \div 12)
             max_day == monthrange(year, month)
             day     == IF date_day(current) < max_day THEN date_day(current)
                        ELSE max_day
         IN  date_type(year, month, day)

\* compute_next_run with thirty days for a month
compute_next_run_thirty_days(current, recurrence) ==
    IF recurrence = "weekly" THEN current + 7
    ELSE IF recurrence = "bi_weekly" THEN current + 14
    ELSE current + 30

\* compute_next_run whose monthly branch stays in the month of current
compute_next_run_same_month(current, recurrence) ==
    IF recurrence = "weekly" THEN current + 7
    ELSE IF recurrence = "bi_weekly" THEN current + 14
    ELSE LET month   == date_month(current)
             year    == date_year(current)
             max_day == monthrange(year, month)
             day     == IF date_day(current) < max_day THEN date_day(current)
                        ELSE max_day
         IN  date_type(year, month, day)

\* compute_next_run(current, recurrence): the function has two parameters;
\* the day of the result of the monthly branch is taken from current.
compute_next_run(current, recurrence) ==
    IF recurrence = "weekly" THEN current + 7
    ELSE IF recurrence = "bi_weekly" THEN current + 14
    ELSE LET month   == (date_month(current) % 12) + 1
             year    == date_year(current) + (date_month(current) \div 12)
             max_day == monthrange(year, month)
             day     == IF date_day(current) < max_day THEN date_day(current)
                        ELSE max_day
         IN  date_type(year, month, day)

\* ------------------------------------------------------------------------
\* Bounds and input sets
\* ------------------------------------------------------------------------

MaxTemplates == 1
MaxSchedules == 2
MaxTasks == 2

\* 2026-01-31: the last day of a 31-day month in front of a 28-day February
FirstDate == date_type(2026, 1, 31)

\* the dates a client opens: 31 January, 10 February (on no occurrence of a
\* schedule anchored on FirstDate) and 28 February 2026 (four weeks later,
\* the last day of the month)
OpenDates == {FirstDate, FirstDate + 10, FirstDate + 28}

\* the anchor dates a client attaches a recurrence with
AnchorDates == {FirstDate}

\* the dates a client marks off or clears, and the day a client instantiates
\* a template on by hand
OffDates == {FirstDate, FirstDate + 28}
ManualDays == {FirstDate}

\* oliver_shared.VALID_CATEGORIES
VALID_CATEGORIES == {"deep_work", "short_task", "maintenance"}

\* the category a template is given, and the one an instantiation overrides
\* it with
TemplateCategories == {c \in VALID_CATEGORIES : c = "short_task"}
OverrideCategories == {c \in VALID_CATEGORIES : c = "deep_work"}

\* ------------------------------------------------------------------------
\* State
\*   templates : id -> [category]                      (task_templates)
\*   schedules : id -> [template_id, recurrence, anchor_date, next_run_date]
\*   days      : the dates that have a Day row; a Day is named by its date,
\*               which is unique per row                 (days)
\*   day_offs  : the days that carry an off-record       (day_offs)
\*   tasks     : set of [id, day_id, category, order_index, schedule_id];
\*               id is the autoincrement key, one more than the rows
\*               there are since no task is deleted; schedule_id is
\*               history only: 0 for a manual instantiation, else the
\*               schedule whose occurrence produced the task
\*   ids       : the autoincrement counters
\*   settings  : key -> value                            (settings): the row
\*               of recurring_days_off holds the list of weekday names
\*   seen      : history: for a schedule that was there when a day-open
\*               committed, the latest date so opened
\*   last      : history of the last request: its operation and outcome
\*               and, of a day-open, the date, whether the request before
\*               it opened the same date (again), the schedules that were
\*               due on the date and overdue when it began, and the
\*               tasks it created, and the tasks the request before it
\*               created when that opened the same date
\*               and, of a day-open that failed, the schedules whose
\*               iteration of the loop had run in the session (dropped)
\*               and, of a manual instantiation, the day (date), the
\*               template, the category override and the task created
\*               and, of a day-open, whether it created the Day row
\*               (new_day) and the tasks of the Day it returned (response)
\* ------------------------------------------------------------------------

NoRequest ==
    [op |-> "none", date |-> 0, ok |-> TRUE, again |-> FALSE,
     due |-> {}, overdue |-> {}, created |-> {}, created_before |-> {},
     dropped |-> {}, template_id |-> 0, category_override |-> None,
     new_day |-> FALSE, response |-> {}]

Request(op, ok) ==
    [NoRequest EXCEPT !.op = op, !.ok = ok]

NoCalc == [current |-> 0, recurrence |-> "none", anchor_day |-> 0, result |-> 0]

\* the requests that can be in flight at once, each with a session of its own
MaxSessions == 2
Sessions == 1..MaxSessions

\* a session with no request in it
Idle ==
    [busy |-> FALSE, op |-> "none", target_date |-> 0, new_day |-> FALSE,
     is_day_off |-> FALSE, rows |-> <<>>, order |-> <<>>,
     template_id |-> 0, category_override |-> None, category |-> None,
     order_index |-> 0]

Init ==
    /\ settings = <<>>
    /\ templates = <<>>
    /\ schedules = <<>>
    /\ days = {}
    /\ day_offs = {}
    /\ tasks = {}
    /\ ids = [template |-> 0, schedule |-> 0]
    /\ last = NoRequest
    /\ calc = NoCalc
    /\ sessions = [x \in Sessions |-> Idle]
    /\ seen = <<>>

\* ------------------------------------------------------------------------
\* TemplateService
\* ------------------------------------------------------------------------

\* count_tasks over the day, whatever the category
count_tasks_of_day(tsk, day_id, category) ==
    Cardinality({t \in tsk : t.day_id = day_id})

\* select(func.count()).where(Task.day_id == day_id, Task.category == category)
count_tasks(tsk, day_id, category) ==
    Cardinality({t \in tsk : t.day_id = day_id /\ t.category = category})

\* instantiate with the template's category first and the override only when
\* the template has none
instantiate_template_first(tsk, template, day_id, category_override, schedule_id) ==
    LET category == IF template.category # None THEN template.category
                    ELSE category_override
    IN  [raised |-> (category = None),
         task   |-> [id          |-> Cardinality(tsk) + 1,
                     day_id      |-> day_id,
                     category    |-> category,
                     order_index |-> count_tasks(tsk, day_id, category),
                     schedule_id |-> schedule_id]]

\* instantiate that counts the tasks committed before the request, not the
\* ones the session has added since
instantiate_committed_count(tsk, template, day_id, category_override, schedule_id) ==
    LET category == IF category_override # None THEN category_override
                    ELSE template.category
    IN  [raised |-> (category = None),
         task   |-> [id          |-> Cardinality(tsk) + 1,
                     day_id      |-> day_id,
                     category    |-> category,
                     order_index |-> count_tasks(tasks, day_id, category),
                     schedule_id |-> schedule_id]]

\* TemplateService.instantiate: category_override if given, else the
\* template's category; ValueError when both are absent; order_index is the
\* count of the tasks of (day, category); tsk is the session's view of the
\* tasks table.  The result is the raised flag and the Task added.
instantiate(tsk, template, day_id, category_override, schedule_id) ==
    LET category == IF category_override # None THEN category_override
                    ELSE template.category
    IN  [raised |-> (category = None),
         task   |-> [id          |-> Cardinality(tsk) + 1,
                     day_id      |-> day_id,
                     category    |-> category,
                     order_index |-> count_tasks(tsk, day_id, category),
                     schedule_id |-> schedule_id]]

\* create_schedule as an upsert: a template that has a schedule keeps one
\* row, overwritten by the new recurrence and anchor
create_schedule_upsert(template_id, recurrence, anchor_date) ==
    LET row  == [template_id   |-> template_id,
                 recurrence    |-> recurrence,
                 anchor_date   |-> anchor_date,
                 next_run_date |-> anchor_date]
        have == {sid \in DOMAIN schedules : schedules[sid].template_id = template_id}
    IN  IF have = {} THEN (ids.schedule + 1) :> row @@ schedules
        ELSE [sid \in DOMAIN schedules |-> IF sid \in have THEN row ELSE schedules[sid]]

\* create_schedule with the first run one period after the anchor
create_schedule_next_period(template_id, recurrence, anchor_date) ==
    (ids.schedule + 1) :> [template_id   |-> template_id,
                           recurrence    |-> recurrence,
                           anchor_date   |-> anchor_date,
                           next_run_date |-> compute_next_run(anchor_date,
                                                              recurrence)] @@ schedules

\* TemplateService.create_schedule
create_schedule(template_id, recurrence, anchor_date) ==
    (ids.schedule + 1) :> [template_id   |-> template_id,
                           recurrence    |-> recurrence,
                           anchor_date   |-> anchor_date,
                           next_run_date |-> anchor_date] @@ schedules

\* TemplateService.update_template: only the fields given are changed
update_template(template, category) ==
    IF category # None THEN [template EXCEPT !.category = category]
    ELSE template

\* ------------------------------------------------------------------------
\* DayService
\* ------------------------------------------------------------------------

\* Day.day_off: the off-record attached to the Day, None when there is none
day_off(day) ==
    IF day \in day_offs THEN "DayOff" ELSE None

\* select(TemplateSchedule).where(TemplateSchedule.next_run_date <= target_date)
due_schedules(target_date) ==
    {sid \in DOMAIN schedules : schedules[sid].next_run_date <= target_date}

\* the orders in which the rows of an unordered select can come back
Orderings(S) ==
    {o \in [1..Cardinality(S) -> S] : \A i, j \in DOMAIN o : i # j => o[i] # o[j]}

\* db.get(TaskTemplate, schedule.template_id)
get_template(template_id) ==
    IF template_id \in DOMAIN templates THEN templates[template_id]
    ELSE [category |-> None]

\* Occurs(next_run_date, recurrence, target_date): target_date is one of the
\* dates the catch-up loop computes from next_run_date, next_run_date included
RECURSIVE Occurs(_, _, _)
Occurs(next_run_date, recurrence, target_date) ==
    IF next_run_date >= target_date THEN next_run_date = target_date
    ELSE Occurs(compute_next_run(next_run_date, recurrence), recurrence, target_date)

\* is_due with <= for ==: an overdue schedule counts as due
is_due_le(schedule, target_date) ==
    schedule.next_run_date <= target_date

\* is_due on the recomputed occurrences: due when the catch-up passes through
\* target_date
is_due_occurrence(schedule, target_date) ==
    Occurs(schedule.next_run_date, schedule.recurrence, target_date)

\* schedule.next_run_date == target_date
is_due(schedule, target_date) ==
    schedule.next_run_date = target_date

\* should_instantiate without the day-off test
should_instantiate_ignore_off(schedule, target_date, is_day_off) ==
    /\ is_due(schedule, target_date)
    /\ schedule.template_id \in DOMAIN templates
    /\ get_template(schedule.template_id).category # None

\* should_instantiate without the category test ("if template:")
should_instantiate_no_category(schedule, target_date, is_day_off) ==
    /\ is_due(schedule, target_date)
    /\ ~is_day_off
    /\ schedule.template_id \in DOMAIN templates

\* date.strftime("%A").lower(); date 0 is 1 January of EpochYear, a Thursday
WeekdayNames ==
    <<"monday", "tuesday", "wednesday", "thursday", "friday", "saturday", "sunday">>
weekday(d) == WeekdayNames[((d + 3) % 7) + 1]

RECURRING_DAYS_OFF_KEY == "recurring_days_off"

\* DayService.get_recurring_days_off: the list stored, [] when there is none
get_recurring_days_off ==
    IF RECURRING_DAYS_OFF_KEY \in DOMAIN settings
    THEN settings[RECURRING_DAYS_OFF_KEY]
    ELSE <<>>

\* DayService.set_recurring_days_off: the row is updated, or added
set_recurring_days_off(days_list) ==
    RECURRING_DAYS_OFF_KEY :> days_list @@ settings

\* should_instantiate that also takes a day for off when its weekday is in
\* the recurring-days-off setting
should_instantiate_recurring_off(schedule, target_date, is_day_off) ==
    /\ is_due(schedule, target_date)
    /\ ~is_day_off
    /\ \A i \in DOMAIN get_recurring_days_off :
            get_recurring_days_off[i] # weekday(target_date)
    /\ schedule.template_id \in DOMAIN templates
    /\ get_template(schedule.template_id).category # None

\* the condition under which the loop body instantiates the template:
\* due today, the day not off, the template there and with a category
should_instantiate(schedule, target_date, is_day_off) ==
    /\ is_due(schedule, target_date)
    /\ ~is_day_off
    /\ schedule.template_id \in DOMAIN templates
    /\ get_template(schedule.template_id).category # None

\* advance with < for <=: a schedule due on target_date keeps its cursor
RECURSIVE advance_strict(_, _)
advance_strict(schedule, target_date) ==
    IF schedule.next_run_date < target_date
    THEN advance_strict([schedule EXCEPT !.next_run_date =
                            compute_next_run(@, schedule.recurrence)], target_date)
    ELSE schedule

\* advance that counts one period from target_date, not from the cursor
advance_from_target(schedule, target_date) ==
    [schedule EXCEPT
        !.next_run_date = compute_next_run(target_date, schedule.recurrence)]

\* advance that leaves an overdue cursor where it is, for the open of the
\* day it names, and moves a cursor that is on target_date one period
advance_keep_overdue(schedule, target_date) ==
    IF schedule.next_run_date = target_date
    THEN [schedule EXCEPT !.next_run_date = compute_next_run(@, schedule.recurrence)]
    ELSE schedule

\* advance with "if" for "while": one period, however many were missed
advance_once(schedule, target_date) ==
    IF schedule.next_run_date <= target_date
    THEN [schedule EXCEPT !.next_run_date = compute_next_run(@, schedule.recurrence)]
    ELSE schedule

\* while schedule.next_run_date <= target_date:
\*     schedule.next_run_date = compute_next_run(schedule.next_run_date,
\*                                  schedule.recurrence, schedule.anchor_date.day)
\* compute_next_run declares (current, recurrence): the third argument has no
\* parameter to bind to and no part in the date computed.
RECURSIVE advance(_, _)
advance(schedule, target_date) ==
    IF schedule.next_run_date <= target_date
    THEN advance([schedule EXCEPT !.next_run_date =
                      compute_next_run(@, schedule.recurrence)], target_date)
    ELSE schedule

\* apply_schedule that keeps a due schedule due when its task was not
\* created (day off, no category), for a later open to retry
apply_schedule_hold_skipped(st, sid, day_id, target_date, is_day_off) ==
    LET schedule == st.schedules[sid]
        inst     == should_instantiate(schedule, target_date, is_day_off)
        r        == instantiate(st.tasks, get_template(schedule.template_id),
                                day_id, None, sid)
    IN  IF st.raised THEN st
        ELSE IF inst /\ r.raised THEN [st EXCEPT !.raised = TRUE]
        ELSE IF is_due(schedule, target_date) /\ ~inst THEN st
        ELSE [schedules |-> [st.schedules EXCEPT
                                ![sid] = advance(schedule, target_date)],
              tasks     |-> IF inst THEN st.tasks \cup {r.task} ELSE st.tasks,
              raised    |-> FALSE]

\* apply_schedule with the advance in the else branch of the instantiation:
\* a schedule that produced a task keeps its cursor
apply_schedule_else_advance(st, sid, day_id, target_date, is_day_off) ==
    LET schedule == st.schedules[sid]
        inst     == should_instantiate(schedule, target_date, is_day_off)
        r        == instantiate(st.tasks, get_template(schedule.template_id),
                                day_id, None, sid)
    IN  IF st.raised THEN st
        ELSE IF inst /\ r.raised THEN [st EXCEPT !.raised = TRUE]
        ELSE IF inst THEN [st EXCEPT !.tasks = @ \cup {r.task}]
        ELSE [st EXCEPT !.schedules[sid] = advance(schedule, target_date)]

\* one iteration of "for schedule in schedules" on the session state st
apply_schedule(st, sid, day_id, target_date, is_day_off) ==
    LET schedule == st.schedules[sid]
        inst     == should_instantiate(schedule, target_date, is_day_off)
        r        == instantiate(st.tasks, get_template(schedule.template_id),
                                day_id, None, sid)
    IN  IF st.raised THEN st
        ELSE IF inst /\ r.raised THEN [st EXCEPT !.raised = TRUE]
        ELSE [schedules |-> [st.schedules EXCEPT
                                ![sid] = advance(schedule, target_date)],
              tasks     |-> IF inst THEN st.tasks \cup {r.task} ELSE st.tasks,
              raised    |-> FALSE]

\* the loop of apply_due_schedules over the rows in order
RECURSIVE apply_rows(_, _, _, _, _)
apply_rows(st, order, day_id, target_date, is_day_off) ==
    IF order = <<>> THEN st
    ELSE apply_rows(
             apply_schedule(st, Head(order), day_id, target_date, is_day_off),
             Tail(order), day_id, target_date, is_day_off)

\* apply_due_schedules with a select without its where clause and a do-while
\* for the while: a row that is not due yet is advanced one period too
apply_due_schedules_every(st, order, day_id, target_date, is_day_off) ==
    LET done == apply_rows(st, order, day_id, target_date, is_day_off)
        rows == {order[i] : i \in DOMAIN order}
    IN  IF done.raised THEN done
        ELSE [done EXCEPT !.schedules =
                [sid \in DOMAIN done.schedules |->
                    IF sid \in rows THEN done.schedules[sid]
                    ELSE [done.schedules[sid] EXCEPT !.next_run_date =
                            compute_next_run(@, done.schedules[sid].recurrence)]]]

\* DayService.apply_due_schedules on the rows in the order the query gave
RECURSIVE apply_due_schedules(_, _, _, _, _)
apply_due_schedules(st, order, day_id, target_date, is_day_off) ==
    IF order = <<>> THEN st
    ELSE apply_due_schedules(
             apply_schedule(st, Head(order), day_id, target_date, is_day_off),
             Tail(order), day_id, target_date, is_day_off)

\* seen after a day-open of date that committed: the date is the latest
\* opened for every schedule there is, unless a later one was
see(sn, sch, date) ==
    [sid \in DOMAIN sch |->
        IF sid \in DOMAIN sn /\ sn[sid] > date THEN sn[sid] ELSE date]

\* seen without the schedules that are gone
keep(sn, sch) ==
    [sid \in DOMAIN sn \cap DOMAIN sch |-> sn[sid]]

\* ------------------------------------------------------------------------
\* Requests.  Each one runs in its own session: what it flushed is
\* committed by the route handler when it returns, and dropped with the
\* session when it raises.
\* ------------------------------------------------------------------------

\* get_or_create_by_date returning the Day as it was loaded by its select,
\* before apply_due_schedules
refresh_before_apply(tsk, day_id) ==
    {t \in tasks : t.day_id = day_id}

\* await self._db.refresh(day) after apply_due_schedules: the tasks of the
\* Day returned are those the session holds for it, tsk
refresh(tsk, day_id) ==
    {t \in tsk : t.day_id = day_id}

\* GET /api/days/{day_date}: get_or_create_by_date, then commit
OpenDay ==
    \E target_date \in OpenDates :
    \E order \in Orderings(due_schedules(target_date)) :
        LET is_day_off == day_off(target_date) # None
            st == apply_due_schedules(
                      [schedules |-> schedules, tasks |-> tasks, raised |-> FALSE],
                      order, target_date, target_date, is_day_off)
            again == last.op = "open" /\ last.date = target_date /\ last.ok
            req == [op         |-> "open",
                    date       |-> target_date,
                    ok         |-> ~st.raised,
                    again      |-> again,
                    due        |-> {sid \in DOMAIN schedules :
                                       schedules[sid].next_run_date = target_date},
                    overdue    |-> {sid \in DOMAIN schedules :
                                       schedules[sid].next_run_date < target_date},
                    created    |-> st.tasks \ tasks,
                    created_before |-> IF again THEN last.created ELSE {},
                    dropped    |-> {},
                    template_id |-> 0,
                    category_override |-> None,
                    new_day    |-> target_date \notin days,
                    response   |-> refresh(st.tasks, target_date)]
        IN  /\ Cardinality(st.tasks) <= MaxTasks
            /\ IF st.raised
               THEN /\ UNCHANGED <<schedules, tasks, days, seen>>
                    /\ last' = [req EXCEPT !.created = {}, !.response = {}]
               ELSE /\ schedules' = st.schedules
                    /\ tasks' = st.tasks
                    /\ days' = days \cup {target_date}
                    /\ seen' = see(seen, schedules, target_date)
                    /\ last' = req
            /\ UNCHANGED <<settings, templates, day_offs, ids, calc, sessions>>

\* upsert_day_off that also clears the day of the tasks schedules put on it
UpsertDayOff_purge ==
    \E day_id \in days \cap OffDates :
        /\ day_offs' = day_offs \cup {day_id}
        /\ tasks' = {t \in tasks : ~(t.day_id = day_id /\ t.schedule_id # 0)}
        /\ last' = Request("upsert_day_off", TRUE)
        /\ UNCHANGED <<settings, templates, schedules, days, ids, calc, sessions, seen>>

\* PUT /api/days/{day_id}/day-off
UpsertDayOff ==
    \E day_id \in days \cap OffDates :
        /\ day_offs' = day_offs \cup {day_id}
        /\ last' = Request("upsert_day_off", TRUE)
        /\ UNCHANGED <<settings, templates, schedules, days, tasks, ids, calc, sessions, seen>>

\* DELETE /api/days/{day_id}/day-off
RemoveDayOff ==
    \E day_id \in days \cap OffDates :
        /\ day_offs' = day_offs \ {day_id}
        /\ last' = Request("remove_day_off", TRUE)
        /\ UNCHANGED <<settings, templates, schedules, days, tasks, ids, calc, sessions, seen>>

\* MCP tool mark_day_off(date_str, reason): the Day row is created when it
\* is missing, and no schedule is applied
MarkDayOff ==
    \E target \in OffDates :
        /\ days' = days \cup {target}
        /\ day_offs' = day_offs \cup {target}
        /\ last' = Request("mark_day_off", TRUE)
        /\ UNCHANGED <<settings, templates, schedules, tasks, ids, calc, sessions, seen>>

\* POST /api/templates
CreateTemplate ==
    \E category \in TemplateCategories \cup {None} :
        /\ ids.template < MaxTemplates
        /\ templates' = (ids.template + 1) :> [category |-> category] @@ templates
        /\ ids' = [ids EXCEPT !.template = @ + 1]
        /\ last' = Request("create_template", TRUE)
        /\ UNCHANGED <<settings, schedules, days, day_offs, tasks, calc, sessions, seen>>

\* update_template that starts the template's schedules over from their
\* anchor dates
UpdateTemplate_reset_schedules ==
    \E template_id \in DOMAIN templates,
       category \in TemplateCategories \cup {None} :
        /\ templates' = [templates EXCEPT
                            ![template_id] = update_template(@, category)]
        /\ schedules' = [sid \in DOMAIN schedules |->
                            IF schedules[sid].template_id = template_id
                            THEN [schedules[sid] EXCEPT
                                    !.next_run_date = schedules[sid].anchor_date]
                            ELSE schedules[sid]]
        /\ last' = Request("update_template", TRUE)
        /\ UNCHANGED <<settings, days, day_offs, tasks, ids, calc, sessions, seen>>

\* PUT /api/templates/{template_id}
UpdateTemplate ==
    \E template_id \in DOMAIN templates,
       category \in TemplateCategories \cup {None} :
        /\ templates' = [templates EXCEPT
                            ![template_id] = update_template(@, category)]
        /\ last' = Request("update_template", TRUE)
        /\ UNCHANGED <<settings, schedules, days, day_offs, tasks, ids, calc, sessions, seen>>

\* delete_template with no cascade on TaskTemplate.schedules: the rows of
\* template_schedules stay
DeleteTemplate_no_cascade ==
    \E template_id \in DOMAIN templates :
        /\ templates' = [t \in DOMAIN templates \ {template_id} |-> templates[t]]
        /\ last' = Request("delete_template", TRUE)
        /\ UNCHANGED <<settings, schedules, days, day_offs, tasks, ids, calc, sessions, seen>>

\* DELETE /api/templates/{template_id}: the schedules relationship cascades
DeleteTemplate ==
    \E template_id \in DOMAIN templates :
        /\ templates' = [t \in DOMAIN templates \ {template_id} |-> templates[t]]
        /\ schedules' = [sid \in {x \in DOMAIN schedules :
                                     schedules[x].template_id # template_id}
                            |-> schedules[sid]]
        /\ seen' = keep(seen, schedules')
        /\ last' = Request("delete_template", TRUE)
        /\ UNCHANGED <<settings, days, day_offs, tasks, ids, calc, sessions>>

\* the recurrence values a client sends: the three of RecurrenceType and one
\* that is none of them
RecurrenceInputs == RecurrenceType \cup {"daily"}

\* ScheduleCreate with "recurrence: str", as ScheduleResponse declares it
ScheduleCreate_any_str(recurrence) ==
    TRUE

\* ScheduleCreate: "recurrence: RecurrenceType" validates the body
ScheduleCreate(recurrence) ==
    recurrence \in RecurrenceType

\* POST /api/templates/{template_id}/schedules with a ScheduleCreate body:
\* 422 when the body does not validate, else TemplateService.create_schedule
CreateSchedule ==
    \E template_id \in DOMAIN templates, recurrence \in RecurrenceInputs,
       anchor_date \in AnchorDates :
        /\ ids.schedule < MaxSchedules
        /\ IF ScheduleCreate(recurrence)
           THEN /\ schedules' = create_schedule(template_id, recurrence, anchor_date)
                /\ ids' = [ids EXCEPT !.schedule = @ + 1]
                /\ last' = [Request("create_schedule", TRUE) EXCEPT
                                !.date = anchor_date]
           ELSE /\ UNCHANGED <<schedules, ids>>
                /\ last' = [Request("create_schedule", FALSE) EXCEPT
                                !.date = anchor_date]
        /\ UNCHANGED <<settings, templates, days, day_offs, tasks, calc, sessions, seen>>

\* DELETE /api/templates/{template_id}/schedules/{schedule_id}
DeleteSchedule ==
    \E sid \in DOMAIN schedules :
        /\ schedules' = [x \in DOMAIN schedules \ {sid} |-> schedules[x]]
        /\ seen' = keep(seen, schedules')
        /\ last' = Request("delete_schedule", TRUE)
        /\ UNCHANGED <<settings, templates, days, day_offs, tasks, ids, calc, sessions>>

\* POST /api/templates/{template_id}/instantiate: 400 on ValueError
Instantiate ==
    \E template_id \in DOMAIN templates, day_id \in days \cap ManualDays,
       category_override \in OverrideCategories \cup {None} :
        LET r == instantiate(tasks, templates[template_id], day_id,
                             category_override, 0)
        IN  /\ Cardinality(tasks) < MaxTasks
            /\ tasks' = IF r.raised THEN tasks ELSE tasks \cup {r.task}
            /\ last' = [Request("instantiate", ~r.raised) EXCEPT
                            !.date = day_id,
                            !.template_id = template_id,
                            !.category_override = category_override,
                            !.created = IF r.raised THEN {} ELSE {r.task}]
            /\ UNCHANGED <<settings, templates, schedules, days, day_offs, ids, calc, sessions, seen>>

Next ==
    \/ OpenDay
    \/ UpsertDayOff
    \/ RemoveDayOff
    \/ MarkDayOff
    \/ CreateTemplate
    \/ UpdateTemplate
    \/ DeleteTemplate
    \/ CreateSchedule
    \/ DeleteSchedule
    \/ Instantiate

Spec == Init /\ [][Next]_vars

\* ------------------------------------------------------------------------
\* RecurrenceCalculator on its own: an input is drawn, then the function is
\* applied to it.  anchor_day is the day of month the caller holds for the
\* schedule (schedule.anchor_date.day).
\* ------------------------------------------------------------------------

MaxCalcDate == 820

CalcDates == 0..MaxCalcDate

CalcDraw ==
    /\ calc = NoCalc
    /\ \E current \in CalcDates, recurrence \in RecurrenceType, anchor_day \in 1..31 :
        /\ calc' = [current |-> current, recurrence |-> recurrence,
                    anchor_day |-> anchor_day, result |-> 0]
        /\ UNCHANGED <<settings, templates, schedules, days, day_offs, tasks, ids, last, sessions, seen>>

CalcApply ==
    /\ calc # NoCalc
    /\ calc.result = 0
    /\ calc' = [calc EXCEPT !.result = compute_next_run(calc.current, calc.recurrence)]
    /\ UNCHANGED <<settings, templates, schedules, days, day_offs, tasks, ids, last, sessions, seen>>

NextCalc ==
    \/ CalcDraw
    \/ CalcApply

SpecCalc == Init /\ [][NextCalc]_vars

\* ------------------------------------------------------------------------
\* Day-opens that fail.  A statement of a day-open raises (the storage is
\* gone, locked or full): the exception leaves the handler before its commit
\* and get_db closes the session, which rolls back what was flushed.  What
\* stays is what a commit inside the request made durable before the fault.
\* ------------------------------------------------------------------------

\* instantiate(..., flush_only=False), the default: the task is committed
flush_only_default == FALSE

\* instantiate(..., flush_only=True) in apply_due_schedules
flush_only == TRUE

\* the durable state when the loop over the rows raises after n iterations:
\* saved at the start, and what the session held at each commit since
RECURSIVE run_until_fault(_, _, _, _, _, _, _)
run_until_fault(st, saved, order, n, day_id, target_date, is_day_off) ==
    IF n = 0 \/ order = <<>> THEN saved
    ELSE LET sid  == Head(order)
             inst == should_instantiate(st.schedules[sid], target_date, is_day_off)
             nxt  == apply_schedule(st, sid, day_id, target_date, is_day_off)
         IN  run_until_fault(
                 nxt,
                 IF inst /\ ~flush_only
                 THEN [saved EXCEPT !.schedules = st.schedules,
                                    !.tasks = nxt.tasks, !.day = TRUE]
                 ELSE saved,
                 Tail(order), n - 1, day_id, target_date, is_day_off)

\* GET /api/days/{day_date} with a statement that raises after n iterations
\* of the loop; n = Len(order) is the last flush or the commit
OpenDayFault ==
    \E target_date \in OpenDates :
    \E order \in Orderings(due_schedules(target_date)) :
    \E n \in 0..Len(order) :
        LET is_day_off == day_off(target_date) # None
            saved == run_until_fault(
                         [schedules |-> schedules, tasks |-> tasks, raised |-> FALSE],
                         [schedules |-> schedules, tasks |-> tasks, day |-> FALSE],
                         order, n, target_date, target_date, is_day_off)
        IN  /\ Cardinality(saved.tasks) <= MaxTasks
            /\ schedules' = saved.schedules
            /\ tasks' = saved.tasks
            /\ days' = IF saved.day THEN days \cup {target_date} ELSE days
            /\ last' = [NoRequest EXCEPT
                            !.op = "open", !.date = target_date, !.ok = FALSE,
                            !.due = {sid \in DOMAIN schedules :
                                        schedules[sid].next_run_date = target_date},
                            !.overdue = {sid \in DOMAIN schedules :
                                            schedules[sid].next_run_date < target_date},
                            !.dropped = {order[i] : i \in 1..n}]
            /\ UNCHANGED <<settings, templates, day_offs, ids, calc, sessions, seen>>

NextFault ==
    \/ CreateTemplate
    \/ UpdateTemplate
    \/ CreateSchedule
    \/ MarkDayOff
    \/ OpenDay
    \/ OpenDayFault

SpecFault == Init /\ [][NextFault]_vars

\* ------------------------------------------------------------------------
\* Day-opens that overlap.  get_db gives every request an AsyncSession of its
\* own and the handlers await between their statements, so the statements of
\* two requests interleave.  A day-open is taken in two steps: its reads
\* (the Day row, the off-record, the select of the due rows, which stay in
\* the session as ORM objects) and its writes up to the commit (the Day row
\* when it was missing, the tasks, the cursors of the rows it holds).
\* ------------------------------------------------------------------------

\* select(Day).where(Day.date == target_date), day.day_off and
\* select(TemplateSchedule).where(next_run_date <= target_date)
\* the dates opened by requests that overlap
RaceDates == {FirstDate, FirstDate + 28}

OpenRead ==
    \E x \in Sessions, target_date \in RaceDates :
    \E order \in Orderings(due_schedules(target_date)) :
        /\ ~sessions[x].busy
        /\ sessions' = [sessions EXCEPT ![x] =
                [Idle EXCEPT
                    !.busy        = TRUE,
                    !.op          = "open",
                    !.target_date = target_date,
                    !.new_day     = target_date \notin days,
                    !.is_day_off  = day_off(target_date) # None,
                    !.rows        = [sid \in due_schedules(target_date) |->
                                        schedules[sid]],
                    !.order       = order]]
        /\ UNCHANGED <<settings, templates, schedules, days, day_offs, tasks, ids, last, calc,
                       seen>>

\* session_rows with the rows read again from the table before the loop
session_rows_fresh(x) ==
    [sid \in DOMAIN sessions[x].rows \cap DOMAIN schedules |-> schedules[sid]]

\* schedules = list(result.scalars().all()): the rows the loop works on are
\* the objects the select loaded
session_rows(x) ==
    sessions[x].rows

\* the loop, the flush and the commit of the request in session x.  A Day row
\* the request adds when another request has added it meanwhile breaks the
\* unique constraint on days.date and the request fails.
OpenWrite ==
    \E x \in Sessions :
        LET s  == sessions[x]
            st == apply_due_schedules(
                      [schedules |-> session_rows(x), tasks |-> tasks,
                       raised |-> FALSE],
                      s.order, s.target_date, s.target_date, s.is_day_off)
            failed == st.raised \/ (s.new_day /\ s.target_date \in days)
            req == [op         |-> "open",
                    date       |-> s.target_date,
                    ok         |-> ~failed,
                    again      |-> FALSE,
                    due        |-> {sid \in DOMAIN s.rows :
                                       s.rows[sid].next_run_date = s.target_date},
                    overdue    |-> {sid \in DOMAIN s.rows :
                                       s.rows[sid].next_run_date < s.target_date},
                    created    |-> IF failed THEN {} ELSE st.tasks \ tasks,
                    created_before |-> {},
                    dropped    |-> {},
                    template_id |-> 0,
                    category_override |-> None,
                    new_day    |-> s.new_day,
                    response   |-> IF failed THEN {}
                                   ELSE refresh(st.tasks, s.target_date)]
        IN  /\ s.busy /\ s.op = "open"
            /\ Cardinality(st.tasks) <= MaxTasks
            /\ sessions' = [sessions EXCEPT ![x] = Idle]
            /\ last' = req
            /\ IF failed
               THEN UNCHANGED <<schedules, tasks, days, seen>>
               ELSE /\ seen' = see(seen, schedules, s.target_date)
                    /\ schedules' = [sid \in DOMAIN schedules |->
                                        IF sid \in DOMAIN st.schedules
                                        THEN st.schedules[sid]
                                        ELSE schedules[sid]]
                    /\ tasks' = st.tasks
                    /\ days' = days \cup {s.target_date}
            /\ UNCHANGED <<settings, templates, day_offs, ids, calc>>

NextRace ==
    \/ CreateTemplate
    \/ CreateSchedule
    \/ OpenRead
    \/ OpenWrite

SpecRace == Init /\ [][NextRace]_vars

\* ------------------------------------------------------------------------
\* Manual instantiations that overlap other requests.  instantiate awaits
\* its count query, then builds the Task and commits: it is taken in two
\* steps, the resolution of the category with the count, and the insert
\* with the commit.
\* ------------------------------------------------------------------------

\* POST /api/templates/{template_id}/instantiate up to the count query; 400
\* at once when no category is available
InstantiateRead ==
    \E x \in Sessions, template_id \in DOMAIN templates,
       day_id \in days \cap ManualDays,
       category_override \in OverrideCategories \cup {None} :
        LET r == instantiate(tasks, templates[template_id], day_id,
                             category_override, 0)
        IN  /\ ~sessions[x].busy
            /\ IF r.raised
               THEN /\ last' = [Request("instantiate", FALSE) EXCEPT
                                   !.date = day_id,
                                   !.template_id = template_id,
                                   !.category_override = category_override]
                    /\ UNCHANGED sessions
               ELSE /\ sessions' = [sessions EXCEPT ![x] =
                            [Idle EXCEPT
                                !.busy              = TRUE,
                                !.op                = "instantiate",
                                !.target_date       = day_id,
                                !.template_id       = template_id,
                                !.category_override = category_override,
                                !.category          = r.task.category,
                                !.order_index       = r.task.order_index]]
                    /\ UNCHANGED last
            /\ UNCHANGED <<settings, templates, schedules, days, day_offs, tasks, ids, calc,
                           seen>>

\* session_order_index with the count taken again at the insert
session_order_index_fresh(x) ==
    count_tasks(tasks, sessions[x].target_date, sessions[x].category)

\* order_index = count_result.scalar_one(): the value the count query gave
session_order_index(x) ==
    sessions[x].order_index

\* the Task(...) of the request in session x, its insert and its commit
InstantiateWrite ==
    \E x \in Sessions :
        LET s    == sessions[x]
            task == [id          |-> Cardinality(tasks) + 1,
                     day_id      |-> s.target_date,
                     category    |-> s.category,
                     order_index |-> session_order_index(x),
                     schedule_id |-> 0]
        IN  /\ s.busy /\ s.op = "instantiate"
            /\ Cardinality(tasks) < MaxTasks
            /\ tasks' = tasks \cup {task}
            /\ sessions' = [sessions EXCEPT ![x] = Idle]
            /\ last' = [Request("instantiate", TRUE) EXCEPT
                            !.date = s.target_date,
                            !.template_id = s.template_id,
                            !.category_override = s.category_override,
                            !.created = {task}]
            /\ UNCHANGED <<settings, templates, schedules, days, day_offs, ids, calc, seen>>

NextPlace ==
    \/ CreateTemplate
    \/ CreateSchedule
    \/ OpenDay
    \/ InstantiateRead
    \/ InstantiateWrite

SpecPlace == Init /\ [][NextPlace]_vars

\* ------------------------------------------------------------------------
\* Properties
\* ------------------------------------------------------------------------

Min(a, b) == IF a < b THEN a ELSE b

\* the last request opened a day
Opened == last.op = "open"

\* the schedule's template is there and has a category
Categorised(sid) ==
    /\ schedules[sid].template_id \in DOMAIN templates
    /\ templates[schedules[sid].template_id].category # None

\* the tasks the last day-open created from the schedule
CreatedFrom(sid) == {t \in last.created : t.schedule_id = sid}

\* the tasks a step creates from the schedule
NewTasksFrom(sid) == {t \in tasks' \ tasks : t.schedule_id = sid}

C2_AtMostOnce ==
    \A t1, t2 \in tasks :
        (t1.schedule_id # 0 /\ t1.schedule_id = t2.schedule_id
            /\ t1.day_id = t2.day_id) => t1 = t2

\* a date whose occurrence was instantiated by an earlier request is opened
\* again after other requests, and has an off-record by now
C2_Witness ==
    /\ Opened /\ ~last.again /\ last.created = {}
    /\ last.date \in day_offs
    /\ \E t \in tasks :
        t.schedule_id \in DOMAIN schedules /\ t.day_id = last.date

C4_CursorMonotone ==
    [][\A sid \in DOMAIN schedules \cap DOMAIN schedules' :
          schedules'[sid].next_run_date >= schedules[sid].next_run_date]_vars

\* a cursor that two day-opens moved, with a task and an off-record around
C4_Witness ==
    /\ \E sid \in DOMAIN schedules :
        schedules[sid].next_run_date > FirstDate + 28
    /\ tasks # {}
    /\ day_offs # {}

\* C5: the monthly result of the calculator called for anchor_day from a
\* date on day min(anchor_day, days of its month) is in the month after it,
\* on day min(anchor_day, days of that month).
C5_MonthlyAnchorDay ==
    (/\ calc.recurrence = "monthly" /\ calc.result # 0
     /\ date_day(calc.current) =
            Min(calc.anchor_day, monthrange(date_year(calc.current),
                                            date_month(calc.current)))) =>
        LET month == (date_month(calc.current) % 12) + 1
            year  == date_year(calc.current) + (date_month(calc.current) \div 12)
        IN  /\ date_year(calc.result) = year
            /\ date_month(calc.result) = month
            /\ date_day(calc.result) = Min(calc.anchor_day, monthrange(year, month))

C11_DayOffNotRetroactive ==
    /\ [][(last'.op \in {"upsert_day_off", "mark_day_off"}) =>
            (tasks' = tasks /\ schedules' = schedules)]_vars
    /\ [][(last'.op = "open" /\ last'.date \in day_offs) =>
            tasks' = tasks]_vars

\* the only off day carries a task a schedule put there before it was marked
\* and the schedule's cursor is past it
C11_Witness ==
    /\ last.op = "upsert_day_off"
    /\ \E t \in tasks :
        /\ t.schedule_id \in DOMAIN schedules
        /\ day_offs = {t.day_id}
        /\ schedules[t.schedule_id].next_run_date > t.day_id

\* C12: a day-open of D creates no task from a schedule whose cursor is after
\* D and leaves every field of it as it was.
C12_NotYetDueIgnored ==
    [][(last'.op = "open") =>
          \A sid \in DOMAIN schedules :
              schedules[sid].next_run_date > last'.date =>
                  /\ sid \in DOMAIN schedules'
                  /\ schedules'[sid] = schedules[sid]
                  /\ NewTasksFrom(sid) = {}]_vars

\* an open that found one schedule due and created its task while another
\* schedule, with a category too, was not due yet
C12_Witness ==
    /\ Opened /\ last.ok
    /\ last.date \notin day_offs
    /\ \E due \in last.due : CreatedFrom(due) # {}
    /\ \E sid \in DOMAIN schedules \ (last.due \cup last.overdue) :
        /\ Categorised(sid)
        /\ schedules[sid].next_run_date > last.date
        /\ CreatedFrom(sid) = {}

C14_FailureAtomicity ==
    /\ [][(last'.op = "open" /\ ~last'.ok) =>
            (schedules' = schedules /\ tasks' = tasks /\ days' = days)]_vars
    /\ [][(/\ last.op = "open" /\ ~last.ok
           /\ last'.op = "open" /\ last'.date = last.date) =>
            (last'.due = last.due /\ last'.overdue = last.overdue)]_vars

\* a failure after the iteration of a due schedule with a category on a day
\* that is not off (its task inserted, its cursor advanced in the session)
\* and before the iteration of another row: the schedule is still due and
\* has no task on the day
C14_Witness ==
    /\ Opened /\ ~last.ok
    /\ last.date \notin day_offs
    /\ \E sid \in last.dropped \cap last.due :
        /\ Categorised(sid)
        /\ schedules[sid].next_run_date = last.date
        /\ \A t \in tasks : ~(t.schedule_id = sid /\ t.day_id = last.date)
    /\ last.dropped # last.due \cup last.overdue

\* the occurrence of schedule sid on date is lost in the state (sch, tsk):
\* date is one of the schedule's occurrences, the cursor is past it and no
\* task was made of it
Lost(sch, tsk, sid, date) ==
    /\ sid \in DOMAIN sch
    /\ Occurs(sch[sid].anchor_date, sch[sid].recurrence, date)
    /\ sch[sid].next_run_date > date
    /\ \A t \in tsk : ~(t.schedule_id = sid /\ t.day_id = date)

\* C15: an occurrence on D that a day-open skipped (the schedule was due on
\* D and no task was created) is lost, and an occurrence that is lost stays
\* lost whatever is done next (removing the off-record, assigning a
\* category, opening D again) for as long as the schedule exists.
C15_SkippedOccurrenceLost ==
    /\ []((Opened /\ last.ok) =>
            \A sid \in last.due :
                CreatedFrom(sid) = {} => Lost(schedules, tasks, sid, last.date))
    /\ [][\A sid \in DOMAIN schedules \cap DOMAIN schedules', date \in OpenDates :
            Lost(schedules, tasks, sid, date) =>
                Lost(schedules', tasks', sid, date)]_vars

\* the anchor date, the only date ever opened, is opened again with no
\* off-record and a category on the template, and its occurrence stays
\* without a task
C15_Witness ==
    /\ Opened /\ last.ok /\ ~last.again
    /\ days = {last.date}
    /\ last.date \notin day_offs
    /\ last.created = {}
    /\ \E sid \in DOMAIN schedules :
        /\ Categorised(sid)
        /\ schedules[sid].anchor_date = last.date
        /\ Lost(schedules, tasks, sid, last.date)

\* C16: the request that creates a schedule with anchor date A adds one
\* schedule, whose anchor_date and next_run_date are A, and leaves the
\* schedules there were as they were.
C16_CursorInitialisedToAnchor ==
    [][(last'.op = "create_schedule" /\ last'.ok) =>
          /\ Cardinality(DOMAIN schedules' \ DOMAIN schedules) = 1
          /\ \A sid \in DOMAIN schedules' \ DOMAIN schedules :
                /\ schedules'[sid].anchor_date = last'.date
                /\ schedules'[sid].next_run_date = last'.date
          /\ \A sid \in DOMAIN schedules :
                sid \in DOMAIN schedules' /\ schedules'[sid] = schedules[sid]]_vars

\* a schedule created with an anchor date that lies before a date already
\* opened, next to a schedule whose cursor has moved on
C16_Witness ==
    /\ last.op = "create_schedule" /\ last.ok
    /\ ids.schedule \in DOMAIN schedules
    /\ schedules[ids.schedule].next_run_date = last.date
    /\ schedules[ids.schedule].anchor_date = last.date
    /\ \E d \in days : d > last.date
    /\ \E sid \in DOMAIN schedules : schedules[sid].next_run_date > last.date

\* C17: the recurrence of every schedule stored is weekly, bi_weekly or
\* monthly, so the calculator is given no other value, and a request to
\* create a schedule that is rejected stores nothing.
C17_RecurrenceInEnum ==
    /\ [](\A sid \in DOMAIN schedules :
            schedules[sid].recurrence \in {"weekly", "bi_weekly", "monthly"})
    /\ [][(last'.op = "create_schedule" /\ ~last'.ok) =>
            (schedules' = schedules /\ ids' = ids)]_vars

\* a request was rejected when a schedule could still be added, next to a
\* schedule stored by a request that was accepted
C17_Witness ==
    /\ last.op = "create_schedule" /\ ~last.ok
    /\ ids.schedule < MaxSchedules
    /\ schedules # <<>>

\* C18: every schedule stored references a template that exists, so deleting
\* a template leaves none of its schedules; deleting a template changes no
\* task; and a task a step creates from a schedule comes from a schedule of
\* a template that exists.
C18_TemplateDeletionCascades ==
    /\ [](\A sid \in DOMAIN schedules :
            schedules[sid].template_id \in DOMAIN templates)
    /\ [][(last'.op = "delete_template") => tasks' = tasks]_vars
    /\ [][\A t \in tasks' \ tasks :
            t.schedule_id # 0 =>
                /\ t.schedule_id \in DOMAIN schedules
                /\ schedules[t.schedule_id].template_id \in DOMAIN templates']_vars

\* a day opened after the template was deleted: the schedule that made a
\* task is gone with it, the task is there, and the open, on a later date,
\* created nothing
C18_Witness ==
    /\ Opened /\ last.ok
    /\ last.created = {}
    /\ templates = <<>> /\ ids.template > 0
    /\ schedules = <<>> /\ ids.schedule > 0
    /\ \E t \in tasks : t.schedule_id # 0 /\ t.day_id < last.date

\* C19: a manual instantiation creates one task in the category of the
\* override when one is given, else in the template's category, and when
\* both are absent the request fails and no task is stored.
C19_CategoryResolution ==
    [][(last'.op = "instantiate") =>
          LET template_category == templates[last'.template_id].category
              override == last'.category_override
          IN  IF override = None /\ template_category = None
              THEN ~last'.ok /\ tasks' = tasks
              ELSE /\ last'.ok
                   /\ \E t \in tasks' \ tasks :
                        /\ tasks' = tasks \cup {t}
                        /\ t.day_id = last'.date
                        /\ t.category = IF override # None THEN override
                                        ELSE template_category]_vars

\* an override on a template that has a category of its own: the task is in
\* the override's category, next to a task instantiated without override
C19_Witness ==
    /\ last.op = "instantiate" /\ last.ok
    /\ last.category_override # None
    /\ last.template_id \in DOMAIN templates
    /\ templates[last.template_id].category \notin {None, last.category_override}
    /\ \A t \in last.created : t.category = last.category_override
    /\ last.created # {} /\ last.created \subseteq tasks
    /\ \E t \in tasks : t.schedule_id = 0
                        /\ t.category = templates[last.template_id].category

\* C20: the task a manual instantiation creates has for order_index the
\* number of tasks the (day, category) held before it, and the order_index
\* values of the tasks of a (day, category) are 0 .. n-1.
C20_CountBasedPlacement ==
    /\ [][(last'.op = "instantiate" /\ last'.ok) =>
            \A t \in tasks' \ tasks :
                t.order_index = Cardinality({u \in tasks :
                    u.day_id = t.day_id /\ u.category = t.category})]_vars
    /\ [](\A t \in tasks :
            {u.order_index : u \in {v \in tasks : v.day_id = t.day_id
                                                  /\ v.category = t.category}}
            = 0 .. (Cardinality({v \in tasks : v.day_id = t.day_id
                                             /\ v.category = t.category}) - 1))

\* a manual instantiation placed at 1, behind the task a schedule put at 0
\* in the same (day, category)
C20_Witness ==
    /\ last.op = "instantiate" /\ last.ok
    /\ \E t \in last.created :
        /\ t \in tasks
        /\ t.order_index = 1
        /\ \E u \in tasks :
            /\ u.order_index = 0 /\ u.schedule_id # 0
            /\ u.day_id = t.day_id /\ u.category = t.category

\* C21: the request of a session that counted n tasks in (day, category)
\* stores its task at order_index n, whatever other requests have inserted
\* since the count; two instantiations into the same (day, category) that
\* both count before either inserts leave two tasks with the same
\* order_index.
C21_CountReadBeforeInsert ==
    [][\A x \in Sessions :
          (sessions[x].op = "instantiate" /\ ~sessions'[x].busy) =>
              \E t \in tasks' \ tasks :
                  /\ tasks' = tasks \cup {t}
                  /\ t.day_id = sessions[x].target_date
                  /\ t.category = sessions[x].category
                  /\ t.order_index = sessions[x].order_index]_vars

\* two tasks at one position of a (day, category)
C21_Witness ==
    \E t1, t2 \in tasks :
        /\ t1 # t2
        /\ t1.day_id = t2.day_id
        /\ t1.category = t2.category
        /\ t1.order_index = t2.order_index

FrameOps ==
    {"instantiate", "create_template", "update_template",
     "upsert_day_off", "remove_day_off", "mark_day_off"}

Tomorrow(ymd) ==
    IF ymd[3] < monthrange(ymd[1], ymd[2]) THEN <<ymd[1], ymd[2], ymd[3] + 1>>
    ELSE IF ymd[2] < 12 THEN <<ymd[1], ymd[2] + 1, 1>>
    ELSE <<ymd[1] + 1, 1, 1>>

\* the calendar date n days after <<year, month, day>>
RECURSIVE PlusDays(_, _)
PlusDays(ymd, n) ==
    IF n = 0 THEN ymd ELSE PlusDays(Tomorrow(ymd), n - 1)

\* the calendar date of a date
YMD(d) == <<date_year(d), date_month(d), date_day(d)>>

\* C24: the weekly result of the calculator is the calendar date 7 days
\* after current and the bi-weekly result the calendar date 14 days after
\* it, counted day by day through the ends of months and years.
C24_WeeklyBiWeekly ==
    (calc.result # 0 /\ calc.recurrence \in {"weekly", "bi_weekly"}) =>
        /\ YMD(calc.result) =
              PlusDays(YMD(calc.current),
                       IF calc.recurrence = "weekly" THEN 7 ELSE 14)
        /\ calc.result - calc.current =
              IF calc.recurrence = "weekly" THEN 7 ELSE 14

\* a bi-weekly step from the last days of February of a leap year
C24_Witness ==
    /\ calc.recurrence = "bi_weekly" /\ calc.result # 0
    /\ date_month(calc.current) = 2 /\ date_day(calc.current) = 29
    /\ YMD(calc.result) = <<date_year(calc.current), 3, 14>>

\* C25: the monthly result of the calculator is a date of the month after
\* the month of current (January of the next year after December), on a day
\* that month has: the day of current, or the last day of the month when it
\* is shorter.
C25_MonthlyClampRollover ==
    (calc.result # 0 /\ calc.recurrence = "monthly") =>
        LET month == IF date_month(calc.current) = 12 THEN 1
                     ELSE date_month(calc.current) + 1
            year  == IF date_month(calc.current) = 12
                     THEN date_year(calc.current) + 1
                     ELSE date_year(calc.current)
        IN  /\ date_year(calc.result) = year
            /\ date_month(calc.result) = month
            /\ date_day(calc.result) >= 1
            /\ date_day(calc.result) <= monthrange(year, month)
            /\ date_day(calc.result) =
                  Min(date_day(calc.current), monthrange(year, month))
            /\ calc.result > calc.current

\* 31 December gives 31 January of the next year
C25_Witness ==
    /\ calc.recurrence = "monthly" /\ calc.result # 0
    /\ date_month(calc.current) = 12 /\ date_day(calc.current) = 31
    /\ YMD(calc.result) = <<date_year(calc.current) + 1, 1, 31>>

\* C26: the cursor of a schedule is after every date opened while the
\* schedule was there, and a day-open of a date that is not after the latest
\* of them creates no task from the schedule and leaves it as it was.
C26_NoBackfillOfEarlierDays ==
    /\ [](\A sid \in DOMAIN seen :
            /\ sid \in DOMAIN schedules
            /\ schedules[sid].next_run_date > seen[sid])
    /\ [][(last'.op = "open") =>
            \A sid \in DOMAIN seen :
                last'.date <= seen[sid] =>
                    /\ sid \in DOMAIN schedules'
                    /\ schedules'[sid] = schedules[sid]
                    /\ NewTasksFrom(sid) = {}]_vars

\* a date that is an occurrence of a schedule with a category is opened for
\* the first time, not off, after a later date was opened: no task
C26_Witness ==
    /\ Opened /\ last.ok
    /\ last.new_day
    /\ last.date \notin day_offs
    /\ \E sid \in DOMAIN seen :
        /\ seen[sid] > last.date
        /\ Categorised(sid)
        /\ Occurs(schedules[sid].anchor_date, schedules[sid].recurrence, last.date)
        /\ CreatedFrom(sid) = {}
        /\ \A t \in tasks : ~(t.schedule_id = sid /\ t.day_id = last.date)

\* the days of a period of a weekly or bi-weekly recurrence
Period(recurrence) == IF recurrence = "weekly" THEN 7 ELSE 14

\* the schedule is weekly or bi-weekly
Periodic(sch, sid) == sch[sid].recurrence \in {"weekly", "bi_weekly"}

\* C27: the cursor of a weekly (bi-weekly) schedule is never before the
\* anchor and is a whole number of 7-day (14-day) periods after it, and a
\* day-open of D that moves the cursor moves it by whole periods to the
\* earliest such date after D: D < next_run_date <= D + period.
C27_MinimalPhasePreservingAdvance ==
    /\ [](\A sid \in DOMAIN schedules :
            Periodic(schedules, sid) =>
                /\ schedules[sid].next_run_date >= schedules[sid].anchor_date
                /\ (schedules[sid].next_run_date - schedules[sid].anchor_date)
                      % Period(schedules[sid].recurrence) = 0)
    /\ [][(last'.op = "open") =>
            \A sid \in DOMAIN schedules \cap DOMAIN schedules' :
                (/\ Periodic(schedules, sid)
                 /\ schedules'[sid] # schedules[sid]) =>
                    /\ schedules'[sid].next_run_date > last'.date
                    /\ schedules'[sid].next_run_date <=
                          last'.date + Period(schedules[sid].recurrence)
                    /\ schedules'[sid].next_run_date >
                          schedules[sid].next_run_date
                    /\ (schedules'[sid].next_run_date
                          - schedules[sid].next_run_date)
                          % Period(schedules[sid].recurrence) = 0]_vars

\* a day-open found a weekly or bi-weekly schedule overdue and moved its
\* cursor over more than one period, to a date after the opened date that
\* is not a period after it
C27_Witness ==
    /\ Opened /\ last.ok
    /\ \E sid \in last.overdue :
        /\ sid \in DOMAIN schedules
        /\ Periodic(schedules, sid)
        /\ schedules[sid].next_run_date - schedules[sid].anchor_date
              >= 2 * Period(schedules[sid].recurrence)
        /\ schedules[sid].next_run_date > last.date
        /\ schedules[sid].next_run_date
              < last.date + Period(schedules[sid].recurrence)

\* ------------------------------------------------------------------------
\* Several schedules due in one call: two templates, of either category,
\* and a day that holds tasks before the schedules come due on it.
\* ------------------------------------------------------------------------

MaxManyTemplates == 2
MaxManyTasks == 4

\* POST /api/templates, up to MaxManyTemplates of them
CreateTemplateMany ==
    \E category \in TemplateCategories \cup OverrideCategories :
        /\ ids.template < MaxManyTemplates
        /\ templates' = (ids.template + 1) :> [category |-> category] @@ templates
        /\ ids' = [ids EXCEPT !.template = @ + 1]
        /\ last' = Request("create_template", TRUE)
        /\ UNCHANGED <<settings, schedules, days, day_offs, tasks, calc, sessions, seen>>

\* GET /api/days/{day_date} on a day that may hold up to MaxManyTasks tasks
OpenDayMany ==
    \E target_date \in OpenDates :
    \E order \in Orderings(due_schedules(target_date)) :
        LET is_day_off == day_off(target_date) # None
            st == apply_due_schedules(
                      [schedules |-> schedules, tasks |-> tasks, raised |-> FALSE],
                      order, target_date, target_date, is_day_off)
            again == last.op = "open" /\ last.date = target_date /\ last.ok
            req == [op         |-> "open",
                    date       |-> target_date,
                    ok         |-> ~st.raised,
                    again      |-> again,
                    due        |-> {sid \in DOMAIN schedules :
                                       schedules[sid].next_run_date = target_date},
                    overdue    |-> {sid \in DOMAIN schedules :
                                       schedules[sid].next_run_date < target_date},
                    created    |-> st.tasks \ tasks,
                    created_before |-> IF again THEN last.created ELSE {},
                    dropped    |-> {},
                    template_id |-> 0,
                    category_override |-> None,
                    new_day    |-> target_date \notin days,
                    response   |-> refresh(st.tasks, target_date)]
        IN  /\ Cardinality(st.tasks) <= MaxManyTasks
            /\ IF st.raised
               THEN /\ UNCHANGED <<schedules, tasks, days, seen>>
                    /\ last' = [req EXCEPT !.created = {}, !.response = {}]
               ELSE /\ schedules' = st.schedules
                    /\ tasks' = st.tasks
                    /\ days' = days \cup {target_date}
                    /\ seen' = see(seen, schedules, target_date)
                    /\ last' = req
            /\ UNCHANGED <<settings, templates, day_offs, ids, calc, sessions>>

NextMany ==
    \/ CreateTemplateMany
    \/ CreateSchedule
    \/ Instantiate
    \/ OpenDayMany

SpecMany == Init /\ [][NextMany]_vars

\* the tasks of (day, category) that were there before the last day-open
Before(day_id, category) ==
    {t \in tasks \ last.created : t.day_id = day_id /\ t.category = category}

\* the tasks the last day-open created in the category
CreatedIn(category) == {t \in last.created : t.category = category}

MissedDays == 400

\* the schedule of the calculator's input: its cursor and its recurrence
CalcSchedule == [next_run_date |-> calc.current, recurrence |-> calc.recurrence]

\* the calls of compute_next_run the while loop makes for the schedule
RECURSIVE Iterations(_, _)
Iterations(schedule, target_date) ==
    IF schedule.next_run_date <= target_date
    THEN 1 + Iterations([schedule EXCEPT !.next_run_date =
                            compute_next_run(@, schedule.recurrence)], target_date)
    ELSE 0

\* C29: the result of the calculator is after current for every recurrence,
\* and the catch-up loop of a schedule whose cursor is MissedDays before the
\* date opened ends, with the cursor after the date, within one call for
\* every 7 days missed and one more.
C29_CatchUpTerminates ==
    (calc.result # 0) =>
        /\ calc.result > calc.current
        /\ advance(CalcSchedule, calc.current + MissedDays).next_run_date
              > calc.current + MissedDays
        /\ Iterations(CalcSchedule, calc.current + MissedDays)
              <= (MissedDays \div 7) + 1

\* a monthly schedule from the 31st whose catch-up over MissedDays days
\* took more than a year of calls and ended after the date opened
C29_Witness ==
    /\ calc.result # 0
    /\ calc.recurrence = "monthly"
    /\ date_day(calc.current) = 31
    /\ Iterations(CalcSchedule, calc.current + MissedDays) > 12
    /\ advance(CalcSchedule, calc.current + MissedDays).next_run_date
          > calc.current + MissedDays

\* ------------------------------------------------------------------------
\* The recurring-days-off setting: weekday names saved by the settings
\* route, next to the off-records of the days.
\* ------------------------------------------------------------------------

\* the lists the settings route is given
RecurringInputs == {<<>>, <<"saturday">>, <<"tuesday", "saturday">>}

\* PUT /api/settings/recurring-days-off
SetRecurringDaysOff ==
    \E days_list \in RecurringInputs :
        /\ settings' = set_recurring_days_off(days_list)
        /\ last' = Request("set_recurring_days_off", TRUE)
        /\ UNCHANGED <<templates, schedules, days, day_offs, tasks, ids, calc,
                       sessions, seen>>

NextSetting ==
    \/ CreateTemplate
    \/ CreateSchedule
    \/ SetRecurringDaysOff
    \/ MarkDayOff
    \/ OpenDay

SpecSetting == Init /\ [][NextSetting]_vars

\* the weekday of the date is in the recurring-days-off setting
RecurringOff(date) ==
    \E i \in DOMAIN get_recurring_days_off :
        get_recurring_days_off[i] = weekday(date)

====
